---- MODULE Spec2Model ----
(***************************************************************************)
(* The in-memory log storage of storage/memory/log_storage.go: one tree,   *)
(* its key-value store (unsequenced queue, sequenced leaves, merkle-hash   *)
(* index, signed roots and their revisions), the tree's currentSTH, and    *)
(* the transactions that callers run against it.                           *)
(***************************************************************************)
EXTENDS Integers, Sequences, FiniteSets, TLC

\* ------------------------------------------------------------- bounds
NumProcs == 2
MaxBatch == 2
MaxTime == 2
MaxIndex == 2
MaxTickets == 2
MaxOps == 2
MaxRev == 2
MaxH2S == 2
MaxCount == 2
MaxSequencerRev == 3
MaxTrees == 2
MaxOpens == 2

\* rfc6962.DefaultHasher.Size(), handed to beginTreeTX as hashSizeBytes
HashSizeBytes == 32

\* writeRevision of a transaction on a tree with no signed root: readRev 0 + 1
InitialWriteRevision == 1

Procs == 1..NumProcs
Times == 1..MaxTime
Indexes == 0..(MaxIndex - 1)
\* the cutoff times handed to DequeueLeaves
Cutoffs == 1..(MaxTime - 1)

VARIABLES store, currentSTH, lock, pc, txs, last, metricFactory, counters,
          trees, pg

vars == <<store, currentSTH, lock, pc, txs, last, metricFactory, counters,
          trees, pg>>

\* ------------------------------------------------------------- values
\* a []byte of n bytes, all equal to b
Bytes(b, n) == [i \in 1..n |-> b]

Leaf(id, mh) == [LeafIdentityHash |-> id, MerkleLeafHash |-> mh, LeafIndex |-> -1]

LeafA == Leaf(Bytes(1, HashSizeBytes), "ma")
LeafB == Leaf(Bytes(2, HashSizeBytes), "mb")
\* a leaf whose identity hash is one byte short
LeafShort == Leaf(Bytes(3, HashSizeBytes - 1), "ma")

InputLeaves == {LeafA, LeafB, LeafShort}

WithIndex(l, i) == [l EXCEPT !.LeafIndex = i]

RECURSIVE SeqsUpTo(_, _)
SeqsUpTo(S, n) ==
    IF n = 0 THEN {<<>>}
    ELSE LET shorter == SeqsUpTo(S, n - 1)
         IN  shorter \cup {Append(s, x) : s \in {t \in shorter : Len(t) = n - 1}, x \in S}

\* the batches a caller hands to QueueLeaves
Batches == SeqsUpTo(InputLeaves, MaxBatch) \ {<<>>}

\* the batches a sequencer hands to UpdateSequencedLeaves: leaves with
\* consecutive indexes, starting anywhere
SequencedBatches ==
    {[i \in 1..Len(b) |-> WithIndex(b[i], first + i - 1)] :
        b \in Batches, first \in Indexes}

\* a SignedLogRoot: LogRoot is the serialized LogRootV1; wellFormed tells whether
\* UnmarshalBinary accepts it
SignedLogRoot(ts, size) == [wellFormed |-> TRUE, TimestampNanos |-> ts, TreeSize |-> size]
GarbledRoot == [wellFormed |-> FALSE, TimestampNanos |-> 0, TreeSize |-> 0]
InputRoots == {SignedLogRoot(ts, n) : ts \in Times, n \in 0..MaxIndex} \cup {GarbledRoot}

\* types.LogRootV1.UnmarshalBinary
UnmarshalBinary(slr) ==
    IF slr.wellFormed
    THEN [err |-> "nil", TimestampNanos |-> slr.TimestampNanos, TreeSize |-> slr.TreeSize]
    ELSE [err |-> "ErrUnmarshal", TimestampNanos |-> 0, TreeSize |-> 0]

\* ------------------------------------------------------------- the BTree store
\* One table per key prefix of the tree's store. unseq is the list under
\* unseqKey, seq the items under seqLeafKey, h2s the map under hashToSeqKey,
\* sth the items under sthKey, rev the items under revKey. Tables seq, sth, rev
\* and the map h2s are partial functions: a key is present iff it is in DOMAIN.
\* next numbers the entries of unseq in the order they were inserted (it is not
\* read by any operation; it names the insertion order for the properties).
EmptyMap == [k \in {} |-> 0]

EmptyStore ==
    [unseq |-> <<>>, seq |-> EmptyMap, h2s |-> EmptyMap,
     sth |-> EmptyMap, rev |-> EmptyMap, next |-> 1]

\* btree.ReplaceOrInsert, and a Go map assignment
ReplaceOrInsert(m, k, v) == [x \in (DOMAIN m) \cup {k} |-> IF x = k THEN v ELSE m[x]]

\* reading a Go map[string][]int64: a missing key reads as the nil slice
Bucket(m, k) == IF k \in DOMAIN m THEN m[k] ELSE <<>>

\* reading a Go map[string]int: a missing key reads as 0
CountOf(m, k) == IF k \in DOMAIN m THEN m[k] ELSE 0

\* delete(m, k)
Delete(m, k) == [x \in (DOMAIN m) \ {k} |-> m[x]]

RECURSIVE SumLens(_, _)
SumLens(m, keys) ==
    IF keys = {} THEN 0
    ELSE LET k == CHOOSE x \in keys : TRUE
         IN  Len(m[k]) + SumLens(m, keys \ {k})

\* ------------------------------------------------------------- logTreeTX
\* A transaction: tx is its view of the store, slr the root loaded at begin
\* (<<>> is nil), ops counts the writing operations the caller has run in it,
\* failed is the first error an operation returned to the caller ("nil": none).
NilRoot == <<>>

\* fetchLatestRoot
fetchLatestRoot(tx, cur) ==
    IF cur \notin DOMAIN tx.sth
    THEN [slr |-> NilRoot, rev |-> 0, err |-> "ErrTreeNeedsInit"]
    ELSE IF cur \notin DOMAIN tx.rev
    THEN [slr |-> NilRoot, rev |-> 0, err |-> "ErrTreeNeedsInit"]
    ELSE [slr |-> <<tx.sth[cur]>>, rev |-> tx.rev[cur], err |-> "nil"]

\* beginTreeTX: the transaction works on a snapshot of the tree's store
beginTreeTX(st, readonly) ==
    [tx |-> st, readonly |-> readonly, writeRevision |-> InitialWriteRevision,
     slr |-> NilRoot, ops |-> 0, failed |-> "nil"]

\* beginInternal: ltx is the transaction, err the error, and held tells whether
\* the tree lock is still held when beginInternal returns
beginInternal(st, cur, readonly) ==
    LET ttx == beginTreeTX(st, readonly)
        r == fetchLatestRoot(ttx.tx, cur)
    IN  IF r.err = "ErrTreeNeedsInit"
        THEN [ltx |-> <<[ttx EXCEPT !.slr = r.slr]>>, err |-> r.err, held |-> TRUE]
        ELSE IF UnmarshalBinary(r.slr[1]).err # "nil"
        THEN [ltx |-> <<>>, err |-> "ErrUnmarshal", held |-> FALSE]
        ELSE [ltx |-> <<[ttx EXCEPT !.slr = r.slr, !.writeRevision = r.rev + 1]>>,
              err |-> "nil", held |-> TRUE]

\* ------------------------------------------------------------- queue
\* a queue that inserts at the front: q.PushFront(l) instead of q.PushBack(l)
RECURSIVE PushFrontAll(_, _, _, _)
PushFrontAll(tx, leaves, queueTimestamp, i) ==
    IF i > Len(leaves) THEN tx
    ELSE PushFrontAll(
            [tx EXCEPT !.unseq = <<[leaf |-> leaves[i], qts |-> queueTimestamp,
                                    ticket |-> tx.next]>> \o @,
                       !.next = @ + 1],
            leaves, queueTimestamp, i + 1)

\* q.PushBack(l) for each leaf of the batch, in the order of the batch. The
\* queueTimestamp is not stored by the code; qts and ticket only label the entry.
RECURSIVE PushBackAll(_, _, _, _)
PushBackAll(tx, leaves, queueTimestamp, i) ==
    IF i > Len(leaves) THEN tx
    ELSE PushBackAll(
            [tx EXCEPT !.unseq = Append(@, [leaf |-> leaves[i], qts |-> queueTimestamp,
                                            ticket |-> tx.next]),
                       !.next = @ + 1],
            leaves, queueTimestamp, i + 1)

\* a QueueLeaves that checks each leaf only when it is about to push it
RECURSIVE PushUntilInvalid(_, _, _, _)
PushUntilInvalid(tx, leaves, queueTimestamp, i) ==
    IF i > Len(leaves) \/ Len(leaves[i].LeafIdentityHash) # HashSizeBytes THEN tx
    ELSE PushUntilInvalid(
            [tx EXCEPT !.unseq = Append(@, [leaf |-> leaves[i], qts |-> queueTimestamp,
                                            ticket |-> tx.next]),
                       !.next = @ + 1],
            leaves, queueTimestamp, i + 1)

QueueLeaves_checkingWhilePushing(t, leaves, queueTimestamp) ==
    [t |-> [t EXCEPT !.tx = PushUntilInvalid(t.tx, leaves, queueTimestamp, 1)],
     err |-> IF \E i \in 1..Len(leaves) : Len(leaves[i].LeafIdentityHash) # HashSizeBytes
             THEN "ErrHashSize" ELSE "nil",
     existing |-> [i \in 1..Len(leaves) |-> <<>>],
     queued |-> 0]

\* logTreeTX.QueueLeaves: existing[i] is nil (<<>>) for every leaf; queued is
\* what the call adds to queuedCounter
logTreeTX_QueueLeaves(t, leaves, queueTimestamp) ==
    IF \E i \in 1..Len(leaves) : Len(leaves[i].LeafIdentityHash) # HashSizeBytes
    THEN [t |-> t, err |-> "ErrHashSize", existing |-> <<>>, queued |-> 0]
    ELSE [t |-> [t EXCEPT !.tx = PushBackAll(t.tx, leaves, queueTimestamp, 1)],
          err |-> "nil",
          existing |-> [i \in 1..Len(leaves) |-> <<>>],
          queued |-> Len(leaves)]

\* the loop of DequeueLeaves: from the front, while i < limit and e != nil
RECURSIVE DequeueLoop(_, _, _, _)
DequeueLoop(q, e, i, limit) ==
    IF i < limit /\ e <= Len(q)
    THEN <<q[e]>> \o DequeueLoop(q, e + 1, i + 1, limit)
    ELSE <<>>

\* a DequeueLeaves that removes what it returns
DequeueLeaves_removing(t, limit, cutoffTime) ==
    LET got == DequeueLoop(t.tx.unseq, 1, 0, limit)
    IN  [t |-> [t EXCEPT !.tx.unseq = SubSeq(@, Len(got) + 1, Len(@))],
         err |-> "nil", leaves |-> got, dequeued |-> Len(got)]

\* logTreeTX.DequeueLeaves: cutoffTime is not consulted; the queue is not
\* changed; dequeued is what the call adds to dequeuedCounter
logTreeTX_DequeueLeaves(t, limit, cutoffTime) ==
    LET leaves == DequeueLoop(t.tx.unseq, 1, 0, limit)
    IN  [t |-> t, err |-> "nil", leaves |-> leaves, dequeued |-> Len(leaves)]

\* ------------------------------------------------------------- sequencing
\* the first loop of UpdateSequencedLeaves: acc carries the store, the
\* countByMerkleHash map and the error that ends the loop early
RECURSIVE InsertSequenced(_, _, _)
InsertSequenced(acc, leaves, i) ==
    IF i > Len(leaves) THEN acc
    ELSE LET leaf == leaves[i]
             mh == leaf.MerkleLeafHash
         IN  IF Len(leaf.LeafIdentityHash) # HashSizeBytes
             THEN [acc EXCEPT !.err = "ErrHashSize"]
             ELSE InsertSequenced(
                    [acc EXCEPT
                       !.count = ReplaceOrInsert(@, mh, CountOf(@, mh) + 1),
                       !.tx.seq = ReplaceOrInsert(@, leaf.LeafIndex, leaf),
                       !.tx.h2s = ReplaceOrInsert(@, mh, Append(Bucket(@, mh), leaf.LeafIndex))],
                    leaves, i + 1)

\* a second loop that takes entries from the front whatever their merkle hash,
\* as many as the batch has leaves
RECURSIVE MatchQueue_ignoringHash(_, _, _)
MatchQueue_ignoringHash(q, e, acc) ==
    IF e > Len(q) \/ DOMAIN acc.count = {} THEN acc
    ELSE LET mh == CHOOSE h \in DOMAIN acc.count : TRUE
             c == acc.count[mh] - 1
         IN  MatchQueue_ignoringHash(q, e + 1,
                [count |-> IF c = 0 THEN Delete(acc.count, mh)
                           ELSE ReplaceOrInsert(acc.count, mh, c),
                 toRemove |-> acc.toRemove \cup {e}])

\* the second loop: walk the queue from the front while countByMerkleHash is
\* not empty, collecting the positions to remove
RECURSIVE MatchQueue(_, _, _)
MatchQueue(q, e, acc) ==
    IF e > Len(q) \/ DOMAIN acc.count = {} THEN acc
    ELSE LET mh == q[e].leaf.MerkleLeafHash
         IN  IF CountOf(acc.count, mh) > 0
             THEN LET c == acc.count[mh] - 1
                  IN  MatchQueue(q, e + 1,
                        [count |-> IF c = 0 THEN Delete(acc.count, mh)
                                   ELSE ReplaceOrInsert(acc.count, mh, c),
                         toRemove |-> acc.toRemove \cup {e}])
             ELSE MatchQueue(q, e + 1, acc)

\* q.Remove(e) for every collected element
RECURSIVE RemoveAt(_, _, _)
RemoveAt(q, toRemove, e) ==
    IF e > Len(q) THEN <<>>
    ELSE (IF e \in toRemove THEN <<>> ELSE <<q[e]>>) \o RemoveAt(q, toRemove, e + 1)

\* an UpdateSequencedLeaves without the final check for unknown leaves
UpdateSequencedLeaves_ignoringUnknown(t, leaves) ==
    LET ins == InsertSequenced([tx |-> t.tx, count |-> EmptyMap, err |-> "nil"], leaves, 1)
    IN  IF ins.err # "nil"
        THEN [t |-> [t EXCEPT !.tx = ins.tx], err |-> ins.err]
        ELSE LET m == MatchQueue(ins.tx.unseq, 1, [count |-> ins.count, toRemove |-> {}])
             IN  [t |-> [t EXCEPT !.tx = [ins.tx EXCEPT !.unseq = RemoveAt(@, m.toRemove, 1)]],
                  err |-> "nil"]

\* logTreeTX.UpdateSequencedLeaves
logTreeTX_UpdateSequencedLeaves(t, leaves) ==
    LET ins == InsertSequenced([tx |-> t.tx, count |-> EmptyMap, err |-> "nil"], leaves, 1)
    IN  IF ins.err # "nil"
        THEN [t |-> [t EXCEPT !.tx = ins.tx], err |-> ins.err]
        ELSE LET m == MatchQueue(ins.tx.unseq, 1, [count |-> ins.count, toRemove |-> {}])
                 tx2 == [ins.tx EXCEPT !.unseq = RemoveAt(@, m.toRemove, 1)]
             IN  [t |-> [t EXCEPT !.tx = tx2],
                  err |-> IF Cardinality(DOMAIN m.count) # 0 THEN "ErrUnknownLeaves" ELSE "nil"]

\* ------------------------------------------------------------- signed roots
\* logTreeTX.StoreSignedLogRoot: the root and its revision go into the
\* transaction's store, currentSTH is advanced on the tree itself
logTreeTX_StoreSignedLogRoot(t, cur, slr) ==
    LET root == UnmarshalBinary(slr)
    IN  IF root.err # "nil"
        THEN [t |-> t, cur |-> cur, err |-> root.err]
        ELSE [t |-> [t EXCEPT
                       !.tx.sth = ReplaceOrInsert(@, root.TimestampNanos, slr),
                       !.tx.rev = ReplaceOrInsert(@, root.TimestampNanos, t.writeRevision)],
              cur |-> IF root.TimestampNanos > cur THEN root.TimestampNanos ELSE cur,
              err |-> "nil"]

\* logTreeTX.LatestSignedLogRoot
logTreeTX_LatestSignedLogRoot(t) == [slr |-> t.slr, err |-> "nil"]

\* ------------------------------------------------------------- reads
\* logTreeTX.GetLeavesByRange: the loop over i in [0, count), from i on
RECURSIVE GetLeavesByRangeLoop(_, _, _, _)
GetLeavesByRangeLoop(tx, start, count, i) ==
    IF i >= count THEN <<>>
    ELSE (IF (start + i) \in DOMAIN tx.seq THEN <<tx.seq[start + i]>> ELSE <<>>)
            \o GetLeavesByRangeLoop(tx, start, count, i + 1)

logTreeTX_GetLeavesByRange(t, start, count) ==
    [ret |-> GetLeavesByRangeLoop(t.tx, start, count, 0), err |-> "nil"]

\* the inner loop of GetLeavesByHash: the leaves stored at the indexes seq
RECURSIVE LeavesAt(_, _, _)
LeavesAt(tx, seq, j) ==
    IF j > Len(seq) THEN <<>>
    ELSE (IF seq[j] \in DOMAIN tx.seq THEN <<tx.seq[seq[j]]>> ELSE <<>>)
            \o LeavesAt(tx, seq, j + 1)

\* the outer loop of GetLeavesByHash: over leafHashes in the order given
RECURSIVE GetLeavesByHashLoop(_, _, _)
GetLeavesByHashLoop(tx, leafHashes, i) ==
    IF i > Len(leafHashes) THEN <<>>
    ELSE (IF leafHashes[i] \in DOMAIN tx.h2s
          THEN LeavesAt(tx, tx.h2s[leafHashes[i]], 1)
          ELSE <<>>)
            \o GetLeavesByHashLoop(tx, leafHashes, i + 1)

\* logTreeTX.GetLeavesByHash: orderBySequence is not consulted
logTreeTX_GetLeavesByHash(t, leafHashes, orderBySequence) ==
    [ret |-> GetLeavesByHashLoop(t.tx, leafHashes, 1), err |-> "nil"]

\* logTreeTX.AddSequencedLeaves
logTreeTX_AddSequencedLeaves(t, leaves, timestamp) ==
    [t |-> t, ret |-> <<>>, err |-> "Unimplemented"]

\* memoryLogStorage.AddSequencedLeaves: tree is the *trillian.Tree handed in
memoryLogStorage_AddSequencedLeaves(st, tree, leaves, timestamp) ==
    [store |-> st, ret |-> <<>>, err |-> "Unimplemented"]

\* the trees a caller hands to the storage: one tree id, either log type
Trees == {[TreeId |-> 1, TreeType |-> ty] : ty \in {"LOG", "PREORDERED_LOG"}}

\* the merkle hashes a caller looks up
HashLists == SeqsUpTo({LeafA.MerkleLeafHash, LeafB.MerkleLeafHash}, MaxBatch) \ {<<>>}

\* ------------------------------------------------------------- storage level
\* treeTX.Commit: the transaction's store becomes the tree's store
Commit(t) == t.tx

\* memoryLogStorage.QueueLeaves: begin, queue, commit; the deferred Close
\* releases the lock on every path on which a transaction was handed back
memoryLogStorage_QueueLeaves(st, cur, leaves, queueTimestamp) ==
    LET b == beginInternal(st, cur, FALSE)
    IN  IF b.err # "nil"
        THEN [store |-> st, err |-> b.err, ret |-> <<>>, queued |-> 0]
        ELSE LET q == logTreeTX_QueueLeaves(b.ltx[1], leaves, queueTimestamp)
             IN  IF q.err # "nil"
                 THEN [store |-> st, err |-> q.err, ret |-> <<>>, queued |-> q.queued]
                 ELSE [store |-> Commit(q.t),
                       err |-> "nil",
                       queued |-> q.queued,
                       ret |-> [i \in 1..Len(leaves) |->
                                  IF q.existing[i] # <<>>
                                  THEN [Leaf |-> q.existing[i][1], Status |-> "AlreadyExists"]
                                  ELSE [Leaf |-> leaves[i], Status |-> "OK"]]]

\* ------------------------------------------------------------- trees
\* m.trees: tree id -> tree, of which GetActiveLogIDs reads the meta
TreeIDs == 1..MaxTrees
TreeMetas ==
    [TreeType : {"LOG", "PREORDERED_LOG", "UNKNOWN_TREE_TYPE"},
     TreeState : {"ACTIVE", "DRAINING", "FROZEN"},
     Deleted : BOOLEAN]

\* the orders in which a range over m.trees may visit the trees
IterationOrders ==
    {o \in [1..MaxTrees -> TreeIDs] : \A i, j \in 1..MaxTrees : i # j => o[i] # o[j]}

\* a GetActiveLogIDs that does not skip the deleted trees
RECURSIVE GetActiveLogIDs_keepingDeleted(_, _, _)
GetActiveLogIDs_keepingDeleted(ts, order, i) ==
    IF i > Len(order) THEN <<>>
    ELSE LET meta == ts[order[i]]
         IN  (IF /\ meta.TreeType \in {"LOG", "PREORDERED_LOG"}
                 /\ meta.TreeState \in {"ACTIVE", "DRAINING"}
              THEN <<order[i]>> ELSE <<>>)
                \o GetActiveLogIDs_keepingDeleted(ts, order, i + 1)

\* memoryLogStorage.GetActiveLogIDs: the loop over m.trees, visited in order
RECURSIVE memoryLogStorage_GetActiveLogIDs(_, _, _)
memoryLogStorage_GetActiveLogIDs(ts, order, i) ==
    IF i > Len(order) THEN <<>>
    ELSE LET meta == ts[order[i]]
         IN  (IF meta.Deleted THEN <<>>
              ELSE IF /\ meta.TreeType \in {"LOG", "PREORDERED_LOG"}
                      /\ meta.TreeState \in {"ACTIVE", "DRAINING"}
              THEN <<order[i]>> ELSE <<>>)
                \o memoryLogStorage_GetActiveLogIDs(ts, order, i + 1)

\* ------------------------------------------------------------- postgresql provider
\* The package variables of storage/postgresql/provider.go: 0 is nil. A
\* database handle is named by the number of the OpenDB call that made it, an
\* error by the number of the call that failed, a provider instance by the
\* number of its allocation; a nil *postgresqlProvider is <<>>. pc[p] is where
\* the caller p stands: "idle", or <<entry point, "Lock">> before it has the
\* mutex and <<entry point, "locked">> once it has; ret[p] is what its last
\* call returned; returned collects what all the calls have returned.
NoProvider == <<>>

InitProvider ==
    [postgresqlMu |-> 0, postgresqlErr |-> 0, postgresqlDB |-> 0,
     postgresqlStorageInstance |-> NoProvider, opens |-> 0, instances |-> 0,
     pc |-> [p \in Procs |-> <<"idle">>],
     ret |-> [p \in Procs |-> <<>>],
     returned |-> [dbs |-> {}, errs |-> {}, providers |-> {}]]

\* a getPostgreSQLDatabaseLocked that caches the handle but not the error
getPostgreSQLDatabaseLocked_forgettingErr(g, ok) ==
    IF g.postgresqlDB # 0
    THEN [g |-> g, db |-> g.postgresqlDB, err |-> 0]
    ELSE IF ~ok
    THEN [g |-> [g EXCEPT !.opens = @ + 1, !.postgresqlErr = g.opens + 1],
          db |-> 0, err |-> g.opens + 1]
    ELSE [g |-> [g EXCEPT !.opens = @ + 1, !.postgresqlDB = g.opens + 1,
                          !.postgresqlErr = 0],
          db |-> g.opens + 1, err |-> 0]

\* getPostgreSQLDatabaseLocked: ok tells whether OpenDB succeeds if it is called
getPostgreSQLDatabaseLocked(g, ok) ==
    IF g.postgresqlDB # 0 \/ g.postgresqlErr # 0
    THEN [g |-> g, db |-> g.postgresqlDB, err |-> g.postgresqlErr]
    ELSE IF ~ok
    THEN [g |-> [g EXCEPT !.opens = @ + 1, !.postgresqlErr = g.opens + 1],
          db |-> 0, err |-> g.opens + 1]
    ELSE [g |-> [g EXCEPT !.opens = @ + 1, !.postgresqlDB = g.opens + 1,
                          !.postgresqlErr = 0],
          db |-> g.opens + 1, err |-> 0]

\* the body of newPostgreSQLStorageProvider, under postgresqlMu
newProviderLocked(g, mf, ok) ==
    IF g.postgresqlStorageInstance = NoProvider
    THEN LET r == getPostgreSQLDatabaseLocked(g, ok)
         IN  IF r.err # 0
             THEN [g |-> r.g, provider |-> NoProvider, err |-> r.err]
             ELSE LET inst == [id |-> r.g.instances + 1, db |-> r.db, mf |-> mf]
                  IN  [g |-> [r.g EXCEPT !.instances = @ + 1,
                                         !.postgresqlStorageInstance = <<inst>>],
                       provider |-> <<inst>>, err |-> 0]
    ELSE [g |-> g, provider |-> g.postgresqlStorageInstance, err |-> 0]

\* ------------------------------------------------------------- metrics
\* Counter.Add on queuedCounter or dequeuedCounter: the counters of
\* InertMetricFactory count nothing
CounterAdd(mf, c, name, n) ==
    IF mf = "InertMetricFactory" THEN c
    ELSE [c EXCEPT ![name] = @ + n]

\* ------------------------------------------------------------- state
\* tree.mu: one writer, or any number of readers
CanLock == ~lock.writer /\ lock.readers = 0
CanRLock == ~lock.writer
\* the read locks held at once, those no caller can release included
MaxReaders == 2

\* last: the operation that ran last, with its arguments and what it returned
Op(op, p, err, leaves, out, limit, time) ==
    [op |-> op, p |-> p, err |-> err, leaves |-> leaves, out |-> out,
     limit |-> limit, time |-> time]

\* the transaction after an operation that returned err
Ran(t, err, writes) ==
    [t EXCEPT !.ops = @ + writes,
              !.failed = IF @ = "nil" THEN err ELSE @]

\* the meta of the tree whose store the model follows
TheLog == [TreeType |-> "LOG", TreeState |-> "ACTIVE", Deleted |-> FALSE]

\* NewLogStorage with the metric factory mf, before any call
InitWith(mf) ==
    /\ store = EmptyStore
    /\ currentSTH = 0
    /\ lock = [writer |-> FALSE, readers |-> 0]
    /\ pc = [p \in Procs |-> "idle"]
    /\ txs = [p \in Procs |-> <<>>]
    /\ last = Op("none", 0, "nil", <<>>, <<>>, 0, 0)
    /\ metricFactory = mf
    /\ counters = [queued |-> 0, dequeued |-> 0]
    /\ trees = [id \in {1} |-> TheLog]
    /\ pg = InitProvider

\* NewLogStorage(ts, nil): the metric factory is monitoring.InertMetricFactory
Init == InitWith("InertMetricFactory")

\* a ReadWriteTransaction that begins its transaction as readonly: it takes
\* the read lock of tree.mu
ReadWriteTransaction_readonly(p) ==
    /\ pc[p] = "idle"
    /\ CanRLock
    /\ lock.readers < MaxReaders
    /\ LET b == beginInternal(store, currentSTH, TRUE)
       IN  IF b.err # "nil" /\ b.err # "ErrTreeNeedsInit"
           THEN /\ last' = Op("ReadWriteTransaction", p, b.err, <<>>, <<>>, 0, 0)
                /\ UNCHANGED <<pc, txs, lock>>
           ELSE /\ pc' = [pc EXCEPT ![p] = "f"]
                /\ txs' = [txs EXCEPT ![p] = b.ltx]
                /\ lock' = [lock EXCEPT !.readers = @ + 1]
                /\ last' = Op("begin", p, b.err, <<>>, <<>>, 0, 0)
    /\ UNCHANGED <<store, currentSTH, metricFactory, trees, pg, counters>>

\* ReadWriteTransaction, up to the call of f: begin, and go on when the tree
\* needs init
ReadWriteTransaction(p) ==
    /\ pc[p] = "idle"
    /\ CanLock
    /\ LET b == beginInternal(store, currentSTH, FALSE)
       IN  IF b.err # "nil" /\ b.err # "ErrTreeNeedsInit"
           THEN /\ last' = Op("ReadWriteTransaction", p, b.err, <<>>, <<>>, 0, 0)
                /\ UNCHANGED <<pc, txs, lock>>
           ELSE /\ pc' = [pc EXCEPT ![p] = "f"]
                /\ txs' = [txs EXCEPT ![p] = b.ltx]
                /\ lock' = [lock EXCEPT !.writer = TRUE]
                /\ last' = Op("begin", p, b.err, <<>>, <<>>, 0, 0)
    /\ UNCHANGED <<store, currentSTH, metricFactory, trees, pg, counters>>

\* f calls tx.QueueLeaves
CallQueueLeaves(p, leaves, queueTimestamp) ==
    /\ pc[p] = "f"
    /\ txs[p][1].ops < MaxOps
    /\ txs[p][1].tx.next + Len(leaves) <= MaxTickets + 1
    /\ counters.queued < MaxCount
    /\ LET r == logTreeTX_QueueLeaves(txs[p][1], leaves, queueTimestamp)
       IN  /\ txs' = [txs EXCEPT ![p] = <<Ran(r.t, r.err, 1)>>]
           /\ counters' = CounterAdd(metricFactory, counters, "queued", r.queued)
           /\ last' = Op("tx.QueueLeaves", p, r.err, leaves, r.existing, 0, queueTimestamp)
    /\ UNCHANGED <<store, currentSTH, lock, pc, metricFactory, trees, pg>>

\* f calls tx.DequeueLeaves
CallDequeueLeaves(p, limit, cutoffTime) ==
    /\ pc[p] = "f"
    /\ counters.dequeued < MaxCount
    /\ LET r == logTreeTX_DequeueLeaves(txs[p][1], limit, cutoffTime)
       IN  /\ txs' = [txs EXCEPT ![p] = <<Ran(r.t, r.err, 0)>>]
           /\ counters' = CounterAdd(metricFactory, counters, "dequeued", r.dequeued)
           /\ last' = Op("tx.DequeueLeaves", p, r.err, <<>>, r.leaves, limit, cutoffTime)
    /\ UNCHANGED <<store, currentSTH, lock, pc, metricFactory, trees, pg>>

\* f calls tx.UpdateSequencedLeaves
CallUpdateSequencedLeaves(p, leaves) ==
    /\ pc[p] = "f"
    /\ txs[p][1].ops < MaxOps
    /\ SumLens(txs[p][1].tx.h2s, DOMAIN txs[p][1].tx.h2s) + Len(leaves) <= MaxH2S
    /\ LET r == logTreeTX_UpdateSequencedLeaves(txs[p][1], leaves)
       IN  /\ txs' = [txs EXCEPT ![p] = <<Ran(r.t, r.err, 1)>>]
           /\ last' = Op("tx.UpdateSequencedLeaves", p, r.err, leaves, <<>>, 0, 0)
    /\ UNCHANGED <<store, currentSTH, lock, pc, metricFactory, trees, pg, counters>>

\* f calls tx.StoreSignedLogRoot
CallStoreSignedLogRoot(p, slr) ==
    /\ pc[p] = "f"
    /\ txs[p][1].ops < MaxOps
    /\ txs[p][1].writeRevision <= MaxRev
    /\ LET r == logTreeTX_StoreSignedLogRoot(txs[p][1], currentSTH, slr)
       IN  /\ txs' = [txs EXCEPT ![p] = <<Ran(r.t, r.err, 1)>>]
           /\ currentSTH' = r.cur
           /\ last' = Op("tx.StoreSignedLogRoot", p, r.err, <<>>, <<slr>>, 0, 0)
    /\ UNCHANGED <<store, lock, pc, metricFactory, trees, pg, counters>>

\* f returns nil: ReadWriteTransaction commits, the deferred Close finds the
\* transaction closed
ReturnNil(p) ==
    /\ pc[p] = "f"
    /\ store' = Commit(txs[p][1])
    /\ lock' = [lock EXCEPT !.writer = FALSE]
    /\ pc' = [pc EXCEPT ![p] = "idle"]
    /\ txs' = [txs EXCEPT ![p] = <<>>]
    /\ last' = Op("commit", p, "nil", <<>>, <<>>, 0, 0)
    /\ UNCHANGED <<currentSTH, metricFactory, trees, pg, counters>>

\* a ReadWriteTransaction that commits also when f returns an error
ReturnErr_committing(p) ==
    /\ pc[p] = "f"
    /\ store' = Commit(txs[p][1])
    /\ lock' = [lock EXCEPT !.writer = FALSE]
    /\ pc' = [pc EXCEPT ![p] = "idle"]
    /\ txs' = [txs EXCEPT ![p] = <<>>]
    /\ last' = Op("rollback", p,
                  IF txs[p][1].failed # "nil" THEN txs[p][1].failed ELSE "ErrF",
                  <<>>, <<>>, 0, 0)
    /\ UNCHANGED <<currentSTH, metricFactory, trees, pg, counters>>

\* f returns an error (the one an operation gave it, or its own):
\* ReadWriteTransaction returns it, the deferred Close drops the transaction's
\* store and releases the lock. last keeps the leaves f had just dequeued.
ReturnErr(p) ==
    /\ pc[p] = "f"
    /\ lock' = [lock EXCEPT !.writer = FALSE]
    /\ pc' = [pc EXCEPT ![p] = "idle"]
    /\ txs' = [txs EXCEPT ![p] = <<>>]
    /\ last' = LET err == IF txs[p][1].failed # "nil" THEN txs[p][1].failed ELSE "ErrF"
               IN  IF last.op = "tx.DequeueLeaves" /\ last.p = p
                   THEN Op("rollback", p, err, <<>>, last.out, last.limit, last.time)
                   ELSE Op("rollback", p, err, <<>>, <<>>, 0, 0)
    /\ UNCHANGED <<store, currentSTH, metricFactory, trees, pg, counters>>

\* memoryLogStorage.QueueLeaves
QueueLeaves(p, leaves, queueTimestamp) ==
    /\ pc[p] = "idle"
    /\ CanLock
    /\ store.next + Len(leaves) <= MaxTickets + 1
    /\ counters.queued < MaxCount
    /\ LET r == memoryLogStorage_QueueLeaves(store, currentSTH, leaves, queueTimestamp)
       IN  /\ store' = r.store
           /\ counters' = CounterAdd(metricFactory, counters, "queued", r.queued)
           /\ last' = Op("QueueLeaves", p, r.err, leaves, r.ret, 0, queueTimestamp)
    /\ UNCHANGED <<currentSTH, lock, pc, txs, metricFactory, trees, pg>>

\* memoryLogStorage.SnapshotForTree: on an error nothing is handed back, and
\* the read lock stays held when beginInternal returned with the lock held
SnapshotForTree(p) ==
    /\ pc[p] = "idle"
    /\ CanRLock
    /\ lock.readers < MaxReaders
    /\ LET b == beginInternal(store, currentSTH, TRUE)
       IN  /\ lock' = IF b.held THEN [lock EXCEPT !.readers = @ + 1] ELSE lock
           /\ IF b.err # "nil"
              THEN UNCHANGED <<pc, txs>>
              ELSE /\ pc' = [pc EXCEPT ![p] = "snap"]
                   /\ txs' = [txs EXCEPT ![p] = b.ltx]
           /\ last' = Op("SnapshotForTree", p, b.err, <<>>, <<>>, 0, 0)
    /\ UNCHANGED <<store, currentSTH, metricFactory, trees, pg, counters>>

\* the caller closes its snapshot
CloseSnapshot(p) ==
    /\ pc[p] = "snap"
    /\ lock' = [lock EXCEPT !.readers = @ - 1]
    /\ pc' = [pc EXCEPT ![p] = "idle"]
    /\ txs' = [txs EXCEPT ![p] = <<>>]
    /\ last' = Op("close", p, "nil", <<>>, <<>>, 0, 0)
    /\ UNCHANGED <<store, currentSTH, metricFactory, trees, pg, counters>>

\* f, or the holder of a snapshot, calls tx.LatestSignedLogRoot
CallLatestSignedLogRoot(p) ==
    /\ pc[p] \in {"f", "snap"}
    /\ LET r == logTreeTX_LatestSignedLogRoot(txs[p][1])
       IN  last' = [op |-> "tx.LatestSignedLogRoot", p |-> p, err |-> r.err, slr |-> r.slr]
    /\ UNCHANGED <<store, currentSTH, lock, pc, txs, metricFactory, trees, pg, counters>>

\* f, or the holder of a snapshot, calls tx.GetLeavesByRange
CallGetLeavesByRange(p, start, count) ==
    /\ pc[p] \in {"f", "snap"}
    /\ LET r == logTreeTX_GetLeavesByRange(txs[p][1], start, count)
       IN  last' = [op |-> "tx.GetLeavesByRange", p |-> p, err |-> r.err,
                    start |-> start, count |-> count, ret |-> r.ret]
    /\ UNCHANGED <<store, currentSTH, lock, pc, txs, metricFactory, trees, pg, counters>>

\* f, or the holder of a snapshot, calls tx.GetLeavesByHash
CallGetLeavesByHash(p, leafHashes, orderBySequence) ==
    /\ pc[p] \in {"f", "snap"}
    /\ LET r == logTreeTX_GetLeavesByHash(txs[p][1], leafHashes, orderBySequence)
       IN  last' = [op |-> "tx.GetLeavesByHash", p |-> p, err |-> r.err,
                    leafHashes |-> leafHashes, orderBySequence |-> orderBySequence,
                    ret |-> r.ret]
    /\ UNCHANGED <<store, currentSTH, lock, pc, txs, metricFactory, trees, pg, counters>>

\* f calls tx.AddSequencedLeaves
CallAddSequencedLeaves(p, leaves, timestamp) ==
    /\ pc[p] = "f"
    /\ LET r == logTreeTX_AddSequencedLeaves(txs[p][1], leaves, timestamp)
       IN  /\ txs' = [txs EXCEPT ![p] = <<Ran(r.t, r.err, 0)>>]
           /\ last' = [op |-> "tx.AddSequencedLeaves", p |-> p, err |-> r.err,
                        leaves |-> leaves, ret |-> r.ret]
    /\ UNCHANGED <<store, currentSTH, lock, pc, metricFactory, trees, pg, counters>>

\* memoryLogStorage.AddSequencedLeaves: no transaction is begun
AddSequencedLeaves(p, tree, leaves, timestamp) ==
    /\ pc[p] = "idle"
    /\ LET r == memoryLogStorage_AddSequencedLeaves(store, tree, leaves, timestamp)
       IN  /\ store' = r.store
           /\ last' = [op |-> "AddSequencedLeaves", p |-> p, err |-> r.err,
                        tree |-> tree, leaves |-> leaves, ret |-> r.ret]
    /\ UNCHANGED <<currentSTH, lock, pc, txs, metricFactory, trees, pg, counters>>

\* the tree size a transaction works from: root.TreeSize, which is that of the
\* root loaded at begin and 0 (the zero LogRootV1) when there was none
TreeSizeOf(t) ==
    IF t.slr = NilRoot THEN 0 ELSE UnmarshalBinary(t.slr[1]).TreeSize

\* the leaves dequeued, with the indexes from treeSize on, in the order dequeued
RECURSIVE AssignIndexes(_, _, _)
AssignIndexes(dequeued, treeSize, i) ==
    IF i > Len(dequeued) THEN <<>>
    ELSE <<WithIndex(dequeued[i].leaf, treeSize + i - 1)>>
            \o AssignIndexes(dequeued, treeSize, i + 1)

\* the f of a sequencer, run on the transaction t: dequeue up to limit leaves,
\* give them the indexes [tree_size, tree_size + B), UpdateSequencedLeaves,
\* StoreSignedLogRoot with the size tree_size + B and the timestamp ts
SequencerFn(t, cur, limit, ts) ==
    LET d == logTreeTX_DequeueLeaves(t, limit, ts)
        batch == AssignIndexes(d.leaves, TreeSizeOf(t), 1)
        u == logTreeTX_UpdateSequencedLeaves(d.t, batch)
        r == logTreeTX_StoreSignedLogRoot(
                u.t, cur, SignedLogRoot(ts, TreeSizeOf(t) + Len(batch)))
    IN  [t |-> r.t, cur |-> r.cur, dequeued |-> d.dequeued,
         err |-> IF u.err # "nil" THEN u.err ELSE r.err]

\* ReadWriteTransaction with the f of a sequencer, from begin to Close: f
\* returns nil (commits = TRUE) or, after its operations, an error of its own.
\* The sequencer's clock does not run backwards: ts is not before any
\* timestamp it has used.
IntegrateBatch(p, limit, ts, commits) ==
    /\ pc[p] = "idle"
    /\ CanLock
    /\ ts >= currentSTH
    /\ counters.dequeued < MaxCount
    /\ LET b == beginInternal(store, currentSTH, FALSE)
       IN  /\ b.ltx # <<>>
           /\ b.ltx[1].writeRevision <= MaxSequencerRev
           /\ LET r == SequencerFn(b.ltx[1], currentSTH, limit, ts)
              IN  /\ SumLens(r.t.tx.h2s, DOMAIN r.t.tx.h2s) <= MaxH2S
                  /\ store' = IF commits /\ r.err = "nil" THEN Commit(r.t) ELSE store
                  /\ currentSTH' = r.cur
                  /\ counters' = CounterAdd(metricFactory, counters, "dequeued", r.dequeued)
                  /\ last' = [op |-> IF commits /\ r.err = "nil" THEN "commit" ELSE "rollback",
                               p |-> p, err |-> IF commits THEN r.err ELSE "ErrF",
                               limit |-> limit, time |-> ts, sequencer |-> TRUE]
    /\ UNCHANGED <<lock, pc, txs, metricFactory, trees, pg>>

\* the reading operations and AddSequencedLeaves, with SB the batches added
ReadsOver(SB) ==
    \E p \in Procs :
        \/ CallLatestSignedLogRoot(p)
        \/ \E start \in Indexes, count \in 1..MaxIndex : CallGetLeavesByRange(p, start, count)
        \/ \E hashes \in HashLists, order \in BOOLEAN : CallGetLeavesByHash(p, hashes, order)
        \/ \E leaves \in SB, ts \in Times : CallAddSequencedLeaves(p, leaves, ts)
        \/ \E tree \in Trees, leaves \in SB, ts \in Times :
              AddSequencedLeaves(p, tree, leaves, ts)

\* every operation, with its inputs drawn from the given sets: B the batches
\* queued, QT the queue timestamps, SB the batches sequenced, R the roots stored
NextOver(B, QT, SB, R) ==
    \E p \in Procs :
        \/ ReadWriteTransaction(p)
        \/ \E leaves \in B, ts \in QT : CallQueueLeaves(p, leaves, ts)
        \/ \E limit \in 1..MaxBatch, cutoff \in Cutoffs : CallDequeueLeaves(p, limit, cutoff)
        \/ \E leaves \in SB : CallUpdateSequencedLeaves(p, leaves)
        \/ \E slr \in R : CallStoreSignedLogRoot(p, slr)
        \/ ReturnNil(p)
        \/ ReturnErr(p)
        \/ \E leaves \in B, ts \in QT : QueueLeaves(p, leaves, ts)
        \/ SnapshotForTree(p)
        \/ CloseSnapshot(p)

\* the queue and the sequenced leaves under every batch, with one root to store
Next == NextOver(Batches, Times, SequencedBatches, {SignedLogRoot(1, 0), GarbledRoot})

Spec == Init /\ [][Next]_vars

\* the signed roots under every root, with one leaf to queue and to sequence
NextRoots == NextOver({<<LeafA>>}, {1}, {<<WithIndex(LeafA, 0)>>}, InputRoots)

SpecRoots == Init /\ [][NextRoots]_vars

\* the batches sequenced before reading: one leaf behind a gap, or two leaves
ReadBatches == {<<WithIndex(LeafA, 1)>>, <<WithIndex(LeafA, 0), WithIndex(LeafB, 1)>>}

\* the reads, on a tree where one batch is queued, sequenced with or without a
\* gap, and one root is stored
NextReads ==
    \/ NextOver({<<LeafA, LeafB>>}, {1}, ReadBatches, {SignedLogRoot(1, 0)})
    \/ ReadsOver(ReadBatches)

SpecReads == Init /\ [][NextReads]_vars

\* NewLogStorage(ts, mf) with a metric factory whose counters count
InitCounting == InitWith("CountingMetricFactory")

\* the operations that queue and dequeue, on a storage with counting metrics
NextCounters ==
    NextOver({<<LeafA>>, <<LeafA, LeafShort>>}, {1}, {<<WithIndex(LeafA, 0)>>},
             {SignedLogRoot(1, 0)})

SpecCounters == InitCounting /\ [][NextCounters]_vars

\* a storage holding MaxTrees trees of any type and state
InitTrees ==
    /\ store = EmptyStore
    /\ currentSTH = 0
    /\ lock = [writer |-> FALSE, readers |-> 0]
    /\ pc = [p \in Procs |-> "idle"]
    /\ txs = [p \in Procs |-> <<>>]
    /\ last = Op("none", 0, "nil", <<>>, <<>>, 0, 0)
    /\ metricFactory = "InertMetricFactory"
    /\ counters = [queued |-> 0, dequeued |-> 0]
    /\ trees \in [TreeIDs -> TreeMetas]
    /\ pg = InitProvider

\* memoryLogStorage.GetActiveLogIDs, the range over m.trees going in order
GetActiveLogIDs(p, order) ==
    /\ pc[p] = "idle"
    /\ last' = [op |-> "GetActiveLogIDs", p |-> p, err |-> "nil", order |-> order,
                 ret |-> memoryLogStorage_GetActiveLogIDs(trees, order, 1)]
    /\ UNCHANGED <<store, currentSTH, lock, pc, txs, metricFactory, counters, trees, pg>>

NextTrees == \E p \in Procs, order \in IterationOrders : GetActiveLogIDs(p, order)

SpecTrees == InitTrees /\ [][NextTrees]_vars

\* a caller enters GetDatabase or newPostgreSQLStorageProvider
EnterProvider(p, entry) ==
    /\ pg.pc[p] = <<"idle">>
    /\ pg.opens <= MaxOpens
    /\ pg' = [pg EXCEPT !.pc[p] = <<entry, "Lock">>]
    /\ last' = [op |-> "enter", p |-> p, err |-> "nil", entry |-> entry]
    /\ UNCHANGED <<store, currentSTH, lock, pc, txs, metricFactory, counters, trees>>

\* postgresqlMu.Lock() at the head of GetDatabase or of
\* newPostgreSQLStorageProvider
LockPostgresqlMu(p) ==
    /\ Len(pg.pc[p]) = 2
    /\ pg.pc[p][2] = "Lock"
    /\ pg.postgresqlMu = 0
    /\ pg' = [pg EXCEPT !.postgresqlMu = p, !.pc[p] = <<pg.pc[p][1], "locked">>]
    /\ last' = [op |-> "postgresqlMu.Lock", p |-> p, err |-> "nil"]
    /\ UNCHANGED <<store, currentSTH, lock, pc, txs, metricFactory, counters, trees>>

\* GetDatabase under the lock, to its return and the deferred Unlock
GetDatabase(p, ok) ==
    /\ pg.pc[p] = <<"GetDatabase", "locked">>
    /\ LET r == getPostgreSQLDatabaseLocked(pg, ok)
       IN  /\ pg' = [r.g EXCEPT
                        !.postgresqlMu = 0, !.pc[p] = <<"idle">>,
                        !.ret[p] = <<[db |-> r.db, err |-> r.err]>>,
                        !.returned.dbs = IF r.db # 0 THEN @ \cup {r.db} ELSE @,
                        !.returned.errs = IF r.err # 0 THEN @ \cup {r.err} ELSE @]
           /\ last' = [op |-> "GetDatabase", p |-> p, err |-> r.err, db |-> r.db,
                        opened |-> r.g.opens # pg.opens]
    /\ UNCHANGED <<store, currentSTH, lock, pc, txs, metricFactory, counters, trees>>

\* newPostgreSQLStorageProvider under the lock, to its return and the
\* deferred Unlock
newPostgreSQLStorageProvider(p, mf, ok) ==
    /\ pg.pc[p] = <<"newPostgreSQLStorageProvider", "locked">>
    /\ LET r == newProviderLocked(pg, mf, ok)
       IN  /\ pg' = [r.g EXCEPT
                        !.postgresqlMu = 0, !.pc[p] = <<"idle">>,
                        !.ret[p] = <<[provider |-> r.provider, err |-> r.err]>>,
                        !.returned.dbs =
                            IF r.provider # NoProvider THEN @ \cup {r.provider[1].db} ELSE @,
                        !.returned.providers =
                            IF r.provider # NoProvider THEN @ \cup {r.provider[1]} ELSE @,
                        !.returned.errs = IF r.err # 0 THEN @ \cup {r.err} ELSE @]
           /\ last' = [op |-> "newPostgreSQLStorageProvider", p |-> p, err |-> r.err,
                        provider |-> r.provider, opened |-> r.g.opens # pg.opens]
    /\ UNCHANGED <<store, currentSTH, lock, pc, txs, metricFactory, counters, trees>>

NextProvider ==
    \E p \in Procs :
        \/ \E entry \in {"GetDatabase", "newPostgreSQLStorageProvider"} :
              EnterProvider(p, entry)
        \/ LockPostgresqlMu(p)
        \/ \E ok \in BOOLEAN : GetDatabase(p, ok)
        \/ \E mf \in {"InertMetricFactory", "CountingMetricFactory"}, ok \in BOOLEAN :
              newPostgreSQLStorageProvider(p, mf, ok)

SpecProvider == Init /\ [][NextProvider]_vars

\* a tree whose only writers are QueueLeaves and the sequencer
NextSequencer ==
    \E p \in Procs :
        \/ \E leaves \in {<<LeafA>>, <<LeafB>>}, ts \in Times : QueueLeaves(p, leaves, ts)
        \/ \E limit \in 0..MaxBatch, ts \in Times, commits \in BOOLEAN :
              IntegrateBatch(p, limit, ts, commits)
        \/ SnapshotForTree(p)
        \/ \E start \in Indexes, count \in 1..MaxIndex : CallGetLeavesByRange(p, start, count)
        \/ CloseSnapshot(p)

SpecSequencer == Init /\ [][NextSequencer]_vars

\* ------------------------------------------------------------- properties
\* the transaction of process p
Tx(p) == txs[p][1]

\* the identity hashes known for a tree: queued or sequenced
KnownIdentityHashes(st) ==
    {st.unseq[i].leaf.LeafIdentityHash : i \in 1..Len(st.unseq)}
        \cup {st.seq[k].LeafIdentityHash : k \in DOMAIN st.seq}

\* the positions of a batch whose identity hash is already known: for the tree,
\* or from an earlier position of the batch
Duplicates(st, leaves) ==
    {i \in 1..Len(leaves) :
        \/ leaves[i].LeafIdentityHash \in KnownIdentityHashes(st)
        \/ \E j \in 1..(i - 1) : leaves[j].LeafIdentityHash = leaves[i].LeafIdentityHash}

\* C1: QueueLeaves deduplicates on leaf_identity_hash: every position of the
\* batch whose identity hash is already known (queued or sequenced earlier, or
\* earlier in the batch) comes back as AlreadyExists with the existing leaf, and
\* the queue gains an entry only for the other positions.
C1_QueueLeavesDeduplicates ==
    [][(last'.op = "QueueLeaves" /\ last'.err = "nil") =>
          LET leaves == last'.leaves
              dup == Duplicates(store, leaves)
          IN  /\ \A i \in dup :
                    /\ last'.out[i].Status = "AlreadyExists"
                    /\ last'.out[i].Leaf.LeafIdentityHash = leaves[i].LeafIdentityHash
              /\ \A i \in (1..Len(leaves)) \ dup : last'.out[i].Status = "OK"
              /\ Len(store'.unseq) = Len(store.unseq) + Len(leaves) - Cardinality(dup)]_vars

NoDuplicateIdentity(st) ==
    \A i, j \in DOMAIN st.seq :
        i # j => st.seq[i].LeafIdentityHash # st.seq[j].LeafIdentityHash

\* C2: no two sequenced leaves of a tree have the same leaf_identity_hash: a
\* committed transaction in which every operation succeeded never takes a
\* sequenced-leaf store without duplicates to one with duplicates.
C2_OneSequencedLeafPerIdentity ==
    [][(last'.op = "commit" /\ Tx(last'.p).failed = "nil" /\ NoDuplicateIdentity(store))
          => NoDuplicateIdentity(store')]_vars

\* what the next transaction begun on the tree loads
LoadedRoot(st, cur) ==
    LET r == fetchLatestRoot(st, cur)
    IN  [slr |-> r.slr, rev |-> r.rev]

\* what the transaction t loaded when it began
LoadedBy(t) ==
    [slr |-> t.slr, rev |-> IF t.slr = NilRoot THEN 0 ELSE t.writeRevision - 1]

\* C3: a transaction closed without commit leaves the latest signed root as it
\* was: the next transaction loads the signed root and revision that the
\* rolled-back transaction loaded when it began.
C3_RollbackKeepsLatestRoot ==
    [][last'.op = "rollback" =>
          LoadedRoot(store', currentSTH') = LoadedBy(Tx(last'.p))]_vars

\* C4: a sequenced leaf is write-once: UpdateSequencedLeaves with a leaf whose
\* leaf_index is already present fails, and no committed transaction in which
\* every operation succeeded replaces or deletes a stored leaf.
C4_SequencedLeafWriteOnce ==
    [][/\ (last'.op = "tx.UpdateSequencedLeaves"
            /\ \E i \in 1..Len(last'.leaves) :
                  last'.leaves[i].LeafIndex \in DOMAIN Tx(last'.p).tx.seq)
          => last'.err # "nil"
       /\ (last'.op = "commit" /\ Tx(last'.p).failed = "nil")
          => \A k \in DOMAIN store.seq :
                k \in DOMAIN store'.seq /\ store'.seq[k] = store.seq[k]]_vars

\* the number of queue entries, and of leaves of a batch, with a merkle hash
QueueCount(q, mh) == Cardinality({e \in 1..Len(q) : q[e].leaf.MerkleLeafHash = mh})
BatchCount(leaves, mh) == Cardinality({i \in 1..Len(leaves) : leaves[i].MerkleLeafHash = mh})

\* the batch holds a leaf for which the queue has no entry left to match
HasUnknownLeaf(q, leaves) ==
    \E i \in 1..Len(leaves) :
        BatchCount(leaves, leaves[i].MerkleLeafHash) > QueueCount(q, leaves[i].MerkleLeafHash)

\* C5: UpdateSequencedLeaves with a leaf the queue has no entry for returns an
\* error, and a transaction that does not commit has no effect: while a write
\* transaction is open, only its commit changes the queue, the sequenced leaves
\* or the merkle-hash index that the next transaction sees.
C5_UnknownLeafFailsWithoutEffect ==
    [][/\ (last'.op = "tx.UpdateSequencedLeaves"
            /\ HasUnknownLeaf(Tx(last'.p).tx.unseq, last'.leaves))
          => last'.err # "nil"
       /\ (lock.writer /\ last'.op # "commit")
          => /\ store'.unseq = store.unseq
             /\ store'.seq = store.seq
             /\ store'.h2s = store.h2s]_vars

\* C5 witness: a transaction whose UpdateSequencedLeaves failed on unknown
\* leaves has been closed without commit, on a tree with queued entries
C5_Witness ==
    /\ last.op = "rollback"
    /\ last.err = "ErrUnknownLeaves"
    /\ store.unseq # <<>>

\* C6: DequeueLeaves(limit, cutoff) returns only entries queued at or before
\* cutoff.
C6_DequeueRespectsCutoff ==
    last.op = "tx.DequeueLeaves" =>
        \A i \in 1..Len(last.out) : last.out[i].qts <= last.time

\* C7: the queue is FIFO: DequeueLeaves returns at most limit entries, all of
\* them still queued, in the order they were inserted, and every entry it leaves
\* behind was inserted after every entry it returns.
C7_QueueIsFIFO ==
    last.op = "tx.DequeueLeaves" =>
        LET q == Tx(last.p).tx.unseq
            out == last.out
        IN  /\ Len(out) <= last.limit
            /\ \A i \in 1..Len(out) : \E e \in 1..Len(q) : q[e] = out[i]
            /\ \A i, j \in 1..Len(out) : i < j => out[i].ticket < out[j].ticket
            /\ \A e \in 1..Len(q) :
                  (\A i \in 1..Len(out) : out[i].ticket # q[e].ticket)
                     => \A i \in 1..Len(out) : out[i].ticket < q[e].ticket

\* C7 witness: the limit cuts a queue of two different leaves
C7_Witness ==
    /\ last.op = "tx.DequeueLeaves"
    /\ last.limit = 1
    /\ Len(last.out) = 1
    /\ Len(Tx(last.p).tx.unseq) = 2
    /\ Tx(last.p).tx.unseq[1].leaf # Tx(last.p).tx.unseq[2].leaf

Tickets(q) == {q[e].ticket : e \in 1..Len(q)}

\* what a transaction begun on the store st dequeues
Redelivered(st, limit, cutoffTime) ==
    logTreeTX_DequeueLeaves(beginTreeTX(st, FALSE), limit, cutoffTime).leaves

HasWrongHashLength(leaves) ==
    \E i \in 1..Len(leaves) : Len(leaves[i].LeafIdentityHash) # HashSizeBytes

\* C9: QueueLeaves rejects the whole batch when a leaf's identity hash has the
\* wrong length: it returns an error and the queue is unchanged, in the
\* transaction and in the tree.
C9_WrongHashLengthRejectsBatch ==
    [][/\ (last'.op = "tx.QueueLeaves" /\ HasWrongHashLength(last'.leaves))
          => /\ last'.err # "nil"
             /\ txs'[last'.p][1].tx.unseq = Tx(last'.p).tx.unseq
       /\ (last'.op = "QueueLeaves" /\ HasWrongHashLength(last'.leaves))
          => /\ last'.err # "nil"
             /\ store'.unseq = store.unseq]_vars

\* C9 witness: a batch with a valid leaf before the invalid one was rejected
C9_Witness ==
    /\ last.op = "tx.QueueLeaves"
    /\ last.leaves = <<LeafA, LeafShort>>
    /\ last.err = "ErrHashSize"

\* C10: StoreSignedLogRoot never rewrites a signed root: storing a root whose
\* timestamp_nanos is that of a committed root returns an error and leaves the
\* record of that timestamp (root and revision) unchanged.
C10_SignedRootNeverRewritten ==
    [][(last'.op = "tx.StoreSignedLogRoot"
         /\ last'.out[1].wellFormed
         /\ last'.out[1].TimestampNanos \in DOMAIN store.sth)
          => LET ts == last'.out[1].TimestampNanos
             IN  /\ last'.err # "nil"
                 /\ txs'[last'.p][1].tx.sth[ts] = store.sth[ts]
                 /\ txs'[last'.p][1].tx.rev[ts] = store.rev[ts]]_vars

\* revision, tree_size and timestamp_nanos of a loaded root
RootFields(l) ==
    [Revision |-> l.rev,
     TreeSize |-> UnmarshalBinary(l.slr[1]).TreeSize,
     TimestampNanos |-> UnmarshalBinary(l.slr[1]).TimestampNanos]

\* C11: along the latest signed roots that successive transactions load,
\* revision, tree_size and timestamp_nanos never decrease: when a write
\* transaction that loaded a root ends, by commit or by rollback, the root that
\* the next transaction loads has a revision, a tree_size and a
\* timestamp_nanos at least as large.
C11_LineageNonDecreasing ==
    [][(last'.op \in {"commit", "rollback"}
         /\ Tx(last'.p).slr # NilRoot
         /\ LoadedRoot(store', currentSTH').slr # NilRoot)
          => LET before == RootFields(LoadedBy(Tx(last'.p)))
                 after == RootFields(LoadedRoot(store', currentSTH'))
             IN  /\ before.Revision <= after.Revision
                 /\ before.TreeSize <= after.TreeSize
                 /\ before.TimestampNanos <= after.TimestampNanos]_vars

WriteOps ==
    {"tx.QueueLeaves", "tx.DequeueLeaves", "tx.UpdateSequencedLeaves",
     "tx.StoreSignedLogRoot", "commit", "rollback"}

\* C13: at most one read-write transaction of the tree is open at any time:
\* never two processes inside f; every operation of a write transaction runs
\* while no other process has a transaction open; and a ReadWriteTransaction
\* or a QueueLeaves begins only when no transaction is open.
C13_OneWriterAtATime ==
    [][/\ Cardinality({p \in Procs : pc'[p] = "f"}) <= 1
       /\ last'.op \in WriteOps
          => \A q \in Procs \ {last'.p} : pc[q] = "idle" /\ txs[q] = <<>>
       /\ last'.op \in {"begin", "QueueLeaves"}
          => \A q \in Procs : pc[q] = "idle" /\ txs[q] = <<>>]_vars

\* C13 witness: on a tree with committed queue entries, a write transaction
\* has changed its own store while the other process stays outside
C13_Witness ==
    \E p, q \in Procs :
        /\ p # q
        /\ pc[p] = "f" /\ pc[q] = "idle"
        /\ last.p = p /\ last.op = "tx.QueueLeaves" /\ last.err = "nil"
        /\ store.unseq # <<>>
        /\ Tx(p).tx.unseq # store.unseq

\* the signed roots that the committed store holds
CommittedRoots(st) == {st.sth[ts] : ts \in DOMAIN st.sth}

\* C14: commit is atomic and visible: a read-only transaction begun while no
\* write transaction is open sees the committed store, and loads a committed
\* signed root whenever a transaction that stored one has committed; what an
\* uncommitted transaction did is not seen.
C14_CommitVisibleToReaders ==
    ~lock.writer =>
        LET b == beginInternal(store, currentSTH, TRUE)
        IN  /\ b.ltx # <<>> => b.ltx[1].tx = store
            /\ CommittedRoots(store) # {}
                  => /\ b.err = "nil"
                     /\ b.ltx[1].slr # NilRoot
                     /\ b.ltx[1].slr[1] \in CommittedRoots(store)

\* C15: LatestSignedLogRoot on a transaction of a tree that has no signed root
\* returns the error TreeNeedsInit, and on a tree with a committed root it
\* returns a root and no error.
C15_NoRootIsTreeNeedsInit ==
    last.op = "tx.LatestSignedLogRoot" =>
        IF DOMAIN Tx(last.p).tx.sth = {}
        THEN last.err = "ErrTreeNeedsInit"
        ELSE Tx(last.p).slr # NilRoot => (last.err = "nil" /\ last.slr = Tx(last.p).slr)

\* what GetLeavesByRange returns on a transaction begun on the store st
RangeOf(st, start, count) ==
    logTreeTX_GetLeavesByRange(beginTreeTX(st, TRUE), start, count).ret

\* C16: when the only writers are QueueLeaves and sequencer transactions, then
\* whenever the tree has a latest signed root and no write transaction is open,
\* the sequenced indexes are exactly [0, tree_size) of that root:
\* GetLeavesByRange returns one leaf for each index below tree_size, in order,
\* and nothing from tree_size on.
C16_SequencedPrefixIsTreeSize ==
    (~lock.writer /\ fetchLatestRoot(store, currentSTH).err = "nil") =>
        LET size == UnmarshalBinary(fetchLatestRoot(store, currentSTH).slr[1]).TreeSize
            below == RangeOf(store, 0, size)
        IN  /\ Len(below) = size
            /\ \A i \in 1..Len(below) : below[i].LeafIndex = i - 1
            /\ RangeOf(store, size, MaxBatch) = <<>>
            /\ DOMAIN store.seq = 0..(size - 1)

\* C17: GetLeavesByRange(start, count) returns at most count leaves, in
\* increasing leaf_index order from start on, and stops at the first missing
\* index: every index from start up to a returned leaf's index is present
\* (in a transaction none of whose operations has failed).
C17_RangeStopsAtFirstGap ==
    (last.op = "tx.GetLeavesByRange" /\ Tx(last.p).failed = "nil") =>
        LET seq == Tx(last.p).tx.seq
            ret == last.ret
        IN  /\ Len(ret) <= last.count
            /\ \A i, j \in 1..Len(ret) : i < j => ret[i].LeafIndex < ret[j].LeafIndex
            /\ \A i \in 1..Len(ret) :
                  /\ ret[i].LeafIndex \in last.start..(last.start + last.count - 1)
                  /\ \A k \in last.start..ret[i].LeafIndex : k \in DOMAIN seq

\* C18: GetLeavesByHash(hashes, orderBySequence) returns every sequenced leaf
\* whose merkle_leaf_hash is one of the hashes, and with orderBySequence the
\* result is in increasing leaf_index order, whatever the order of the hashes
\* (in a transaction none of whose operations has failed).
C18_ByHashCompleteAndOrdered ==
    (last.op = "tx.GetLeavesByHash" /\ Tx(last.p).failed = "nil") =>
        LET seq == Tx(last.p).tx.seq
            ret == last.ret
            asked == {last.leafHashes[i] : i \in 1..Len(last.leafHashes)}
        IN  /\ \A k \in DOMAIN seq :
                  seq[k].MerkleLeafHash \in asked => \E i \in 1..Len(ret) : ret[i] = seq[k]
            /\ last.orderBySequence
                  => \A i, j \in 1..Len(ret) : i < j => ret[i].LeafIndex <= ret[j].LeafIndex

\* C19: the counters count only what reaches commit: whenever no write
\* transaction is open, queued_leaves is the number of leaves that committed
\* QueueLeaves calls have put on the queue (a call in a transaction that was
\* rolled back, or a rejected batch, adds nothing).
C19_CountersCountCommitted ==
    (metricFactory = "CountingMetricFactory" /\ ~lock.writer)
        => counters.queued = store.next - 1

\* C20: AddSequencedLeaves returns Unimplemented exactly for the trees that
\* are not of type PREORDERED_LOG (for a preordered log it is accepted), and
\* when it returns Unimplemented the tree's store and currentSTH are unchanged.
C20_AddSequencedLeavesForPreordered ==
    [][last'.op = "AddSequencedLeaves"
          => /\ (last'.err = "Unimplemented") <=> (last'.tree.TreeType # "PREORDERED_LOG")
             /\ last'.err = "Unimplemented"
                   => (store' = store /\ currentSTH' = currentSTH)]_vars

\* the revisions recorded for different timestamps differ
DistinctRevisions(st) ==
    \A a, b \in DOMAIN st.rev : a # b => st.rev[a] # st.rev[b]

\* the largest revision recorded in the store, 0 (readRev) for an empty tree
LatestRevision(st) ==
    IF DOMAIN st.rev = {} THEN 0
    ELSE CHOOSE r \in {st.rev[ts] : ts \in DOMAIN st.rev} :
            \A ts \in DOMAIN st.rev : st.rev[ts] <= r

\* C22: revisions advance by exactly one per committed root: when a
\* transaction commits one new root, later than every committed root and
\* without rewriting any of them, on a tree whose committed roots have
\* different revisions, that root is recorded with the latest committed
\* revision plus one (1 on an empty tree), and the committed roots still have
\* different revisions.
C22_RevisionAdvancesByOne ==
    [][LET t == Tx(last'.p).tx
           new == (DOMAIN t.sth) \ (DOMAIN store.sth)
       IN  (/\ last'.op = "commit"
            /\ DistinctRevisions(store)
            /\ Cardinality(new) = 1
            /\ \A ts \in new : \A old \in DOMAIN store.sth : old < ts
            /\ \A old \in DOMAIN store.sth :
                  t.sth[old] = store.sth[old] /\ t.rev[old] = store.rev[old])
           => /\ \A ts \in new : store'.rev[ts] = LatestRevision(store) + 1
              /\ DistinctRevisions(store')]_vars

\* the position of entry e among the entries of q with its merkle hash
RankInHash(q, e) ==
    Cardinality({d \in 1..e : q[d].leaf.MerkleLeafHash = q[e].leaf.MerkleLeafHash})

\* the entries of q from e on that a batch does not take: those that are not
\* among the k earliest of their merkle hash, k its number of leaves in the batch
RECURSIVE LeftInQueue(_, _, _)
LeftInQueue(q, leaves, e) ==
    IF e > Len(q) THEN <<>>
    ELSE (IF RankInHash(q, e) > BatchCount(leaves, q[e].leaf.MerkleLeafHash)
          THEN <<q[e]>> ELSE <<>>)
            \o LeftInQueue(q, leaves, e + 1)

\* the indexes of the leaves of a batch with the merkle hash mh, in batch order
RECURSIVE IndexesOf(_, _, _)
IndexesOf(leaves, mh, i) ==
    IF i > Len(leaves) THEN <<>>
    ELSE (IF leaves[i].MerkleLeafHash = mh THEN <<leaves[i].LeafIndex>> ELSE <<>>)
            \o IndexesOf(leaves, mh, i + 1)

\* C23: a successful UpdateSequencedLeaves(leaves) removes exactly
\* len(leaves) queue entries: for each merkle hash, the earliest entries with
\* that hash, as many as the batch has leaves with it; the other entries stay
\* in their order; each leaf's index is appended to the bucket of its merkle
\* hash, and GetLeavesByHash on that hash returns the leaf.
C23_UpdateRemovesEarliestMatches ==
    [][(last'.op = "tx.UpdateSequencedLeaves" /\ last'.err = "nil")
          => LET before == Tx(last'.p).tx
                 after == txs'[last'.p][1]
                 leaves == last'.leaves
             IN  /\ Len(after.tx.unseq) = Len(before.unseq) - Len(leaves)
                 /\ after.tx.unseq = LeftInQueue(before.unseq, leaves, 1)
                 /\ \A i \in 1..Len(leaves) :
                       LET mh == leaves[i].MerkleLeafHash
                           found == logTreeTX_GetLeavesByHash(after, <<mh>>, FALSE).ret
                       IN  /\ after.tx.h2s[mh] =
                                 Bucket(before.h2s, mh) \o IndexesOf(leaves, mh, 1)
                           /\ \E j \in 1..Len(found) : found[j] = leaves[i]]_vars

\* C23 witness: on a queue of two different leaves the batch took the second
\* and left the first
C23_Witness ==
    /\ last.op = "tx.UpdateSequencedLeaves"
    /\ last.err = "nil"
    /\ Len(last.leaves) = 1
    /\ Len(Tx(last.p).tx.unseq) = 1
    /\ Tx(last.p).tx.next = 3
    /\ Tx(last.p).tx.unseq[1].ticket = 1
    /\ Tx(last.p).tx.unseq[1].leaf.MerkleLeafHash # last.leaves[1].MerkleLeafHash

\* C24: an entry point that begins a transaction and returns an error without
\* handing the transaction back has closed it: the read locks held on the tree
\* are those of the open snapshots, the write lock is held only while an f
\* runs, so that a ReadWriteTransaction can begin once every transaction that
\* was handed out is closed.
C24_NoLockLeftBehind ==
    /\ lock.readers = Cardinality({p \in Procs : pc[p] = "snap"})
    /\ lock.writer <=> (\E p \in Procs : pc[p] = "f")
    /\ (\A p \in Procs : pc[p] = "idle") => CanLock

\* the trees that need sequencing
ActiveLogs(ts) ==
    {id \in DOMAIN ts :
        /\ ts[id].TreeType \in {"LOG", "PREORDERED_LOG"}
        /\ ts[id].TreeState \in {"ACTIVE", "DRAINING"}
        /\ ~ts[id].Deleted}

\* C21: GetActiveLogIDs returns exactly the ids of the trees of type LOG or
\* PREORDERED_LOG, in state ACTIVE or DRAINING and not deleted, each once,
\* whatever the order in which the trees are visited.
C21_ActiveLogIDsExact ==
    last.op = "GetActiveLogIDs" =>
        /\ last.err = "nil"
        /\ {last.ret[i] : i \in 1..Len(last.ret)} = ActiveLogs(trees)
        /\ Len(last.ret) = Cardinality(ActiveLogs(trees))

\* C21 witness: one tree is returned and the other, deleted but otherwise
\* active, is not
C21_Witness ==
    /\ last.op = "GetActiveLogIDs"
    /\ Len(last.ret) = 1
    /\ \E id \in TreeIDs :
          /\ trees[id].Deleted
          /\ trees[id].TreeType = "PREORDERED_LOG"
          /\ trees[id].TreeState = "DRAINING"

\* C25: the PostgreSQL provider is a process-wide singleton: OpenDB is called
\* at most once; the calls that succeed all return the same database handle
\* and the same provider instance, whose handle is that one; after a failed
\* open every call returns the same error and none returns a handle.
C25_ProviderIsSingleton ==
    /\ pg.opens <= 1
    /\ Cardinality(pg.returned.dbs) <= 1
    /\ Cardinality(pg.returned.providers) <= 1
    /\ Cardinality(pg.returned.errs) <= 1
    /\ pg.returned.errs # {} => (pg.returned.dbs = {} /\ pg.returned.providers = {})
    /\ \A pr \in pg.returned.providers : pr.db \in pg.returned.dbs
    /\ \A p \in Procs : (pg.postgresqlMu = p) <=> (pg.pc[p] # <<"idle">> /\ pg.pc[p][2] = "locked")

\* C25 witness: the one open has failed and both processes have returned from
\* a call with its error, the last of them without opening
C25_Witness ==
    /\ last.op \in {"GetDatabase", "newPostgreSQLStorageProvider"}
    /\ last.err # 0
    /\ ~last.opened
    /\ pg.opens = 1
    /\ pg.returned.errs = {1}
    /\ \A p \in Procs : pg.ret[p] # <<>> /\ pg.ret[p][1].err = 1
====
